---- MODULE Spec2Model ----
(***************************************************************************)
(* Vanity-address search (src/main.rs): the compiled pattern matcher, the  *)
(* rayon find_any search over num_threads work items, the shared atomic    *)
(* counters, and the reporting / persistence done by a matching worker.    *)
(*                                                                         *)
(* Text is a sequence of ASCII byte values (65 = 'A', 97 = 'a', ...).      *)
(* Option<T> is a sequence of length 0 (None) or 1 (Some).                 *)
(* Keypair::new() is the only source of candidates: each call yields any   *)
(* address of Addresses.  The candidates in the global order of the calls  *)
(* are the run's candidate stream; the model keeps of it the number of     *)
(* candidates drawn, the first one that satisfies the query and how many   *)
(* did.                                                                    *)
(***************************************************************************)
EXTENDS Integers, Sequences, FiniteSets, TLC

(* ---------------------------------------------------------------- bounds *)

\* Largest worker count (num_threads) explored.
MaxWorkers == 2

\* The positive max_attempts value explored, and the cap on a worker's
\* local_attempts in an unbounded run (max_attempts = 0).
MaxLocal == 3

\* max_attempts of the long bounded runs: more than 2 * FlushBatch + 2, so that
\* two workers can together pass max_attempts by more than one batch each.
LongLimit == 7

\* Stand-in for the flush batch of 50_000 attempts (main.rs:463-464), scaled
\* so that a worker passes a flush within MaxLocal attempts and several
\* within LongLimit.
FlushBatch == 2

\* Stand-in for the progress interval of 5_000_000 attempts (main.rs:468),
\* scaled with FlushBatch.
ProgressEvery == 4

\* Longest pattern and longest candidate text given to the matcher on its own.
MaxTextLen == 3

\* Longest --prefix / --suffix of the runs that compare the two matching paths.
MaxAffixLen == 1

\* Most records in the output file before save_to_json is called on its own.
MaxStored == 2

(* ------------------------------------------------------- Option and text *)

None == <<>>
Some(x) == <<x>>
IsSome(o) == Len(o) = 1
Unwrap(o) == o[1]

is_ascii_uppercase(b) == b \in 65..90
is_ascii_lowercase(b) == b \in 97..122
to_ascii_lowercase(b) == IF is_ascii_uppercase(b) THEN b + 32 ELSE b
to_ascii_uppercase(b) == IF is_ascii_lowercase(b) THEN b - 32 ELSE b

to_uppercase(s) == [i \in 1..Len(s) |-> to_ascii_uppercase(s[i])]
to_lowercase(s) == [i \in 1..Len(s) |-> to_ascii_lowercase(s[i])]

\* str::eq_ignore_ascii_case: same length and equal after ASCII folding.
eq_ignore_ascii_case(a, b) ==
    /\ Len(a) = Len(b)
    /\ \A i \in 1..Len(a) : to_ascii_lowercase(a[i]) = to_ascii_lowercase(b[i])

\* str::starts_with / str::ends_with on the raw pattern.
starts_with(text, p) ==
    /\ Len(p) <= Len(text)
    /\ SubSeq(text, 1, Len(p)) = p

ends_with(text, p) ==
    /\ Len(p) <= Len(text)
    /\ SubSeq(text, Len(text) - Len(p) + 1, Len(text)) = p

(* ----------------------------------------------------- OptimizedPattern *)

OptimizedPattern_new(pattern, case_mode) ==
    [ exact       |-> pattern,
      upper       |-> to_uppercase(pattern),
      lower       |-> to_lowercase(pattern),
      case_mode   |-> case_mode,
      pattern_len |-> Len(pattern) ]

\* Mutant of matches_mixed_case: the lowercase test is left out.
matches_mixed_case_UpperOnly(self, text_slice) ==
    IF Len(text_slice) # self.pattern_len
    THEN FALSE
    ELSE \A i \in 1..self.pattern_len :
            ~(is_ascii_uppercase(self.exact[i]) /\ ~is_ascii_uppercase(text_slice[i]))

matches_mixed_case(self, text_slice) ==
    IF Len(text_slice) # self.pattern_len
    THEN FALSE
    ELSE \A i \in 1..self.pattern_len :
            /\ ~(is_ascii_uppercase(self.exact[i]) /\ ~is_ascii_uppercase(text_slice[i]))
            /\ ~(is_ascii_lowercase(self.exact[i]) /\ ~is_ascii_lowercase(text_slice[i]))

\* Mutant of compare_slice: mode lower compares with the lowercased pattern.
compare_slice_LowerIsLiteral(self, text_slice) ==
    CASE self.case_mode = "exact" -> text_slice = self.exact
      [] self.case_mode = "upper" -> eq_ignore_ascii_case(text_slice, self.exact)
      [] self.case_mode = "lower" -> text_slice = self.lower
      [] self.case_mode = "mixed" -> matches_mixed_case(self, text_slice)
      [] OTHER                    -> text_slice = self.exact

\* Mutant of compare_slice: an unrecognized mode matches nothing.
compare_slice_UnknownRejects(self, text_slice) ==
    CASE self.case_mode = "exact" -> text_slice = self.exact
      [] self.case_mode = "upper" -> eq_ignore_ascii_case(text_slice, self.exact)
      [] self.case_mode = "lower" -> eq_ignore_ascii_case(text_slice, self.exact)
      [] self.case_mode = "mixed" -> matches_mixed_case(self, text_slice)
      [] OTHER                    -> FALSE

\* The match on case_mode shared by matches and matches_suffix.
compare_slice(self, text_slice) ==
    CASE self.case_mode = "exact" -> text_slice = self.exact
      [] self.case_mode = "upper" -> eq_ignore_ascii_case(text_slice, self.exact)
      [] self.case_mode = "lower" -> eq_ignore_ascii_case(text_slice, self.exact)
      [] self.case_mode = "mixed" -> matches_mixed_case(self, text_slice)
      [] OTHER                    -> text_slice = self.exact

matches(self, text) ==
    IF Len(text) < self.pattern_len
    THEN FALSE
    ELSE compare_slice(self, SubSeq(text, 1, self.pattern_len))

\* Mutant of matches_suffix: a text shorter than the pattern is accepted.
matches_suffix_AcceptShort(self, text) ==
    IF Len(text) < self.pattern_len
    THEN TRUE
    ELSE compare_slice(self, SubSeq(text, Len(text) - self.pattern_len + 1, Len(text)))

matches_suffix(self, text) ==
    IF Len(text) < self.pattern_len
    THEN FALSE
    ELSE compare_slice(self, SubSeq(text, Len(text) - self.pattern_len + 1, Len(text)))

(* ------------------------------------------------------------ the inputs *)

\* Candidate addresses: "Ab", "aB" and "AB".
Addresses == { <<65, 98>>, <<97, 66>>, <<65, 66>> }

\* --prefix: absent, "" or "A".   --suffix: "" or "b".
Prefixes == { None, Some(<<>>), Some(<<65>>) }
Suffixes == { <<>>, <<98>> }
\* --case-mode values of the runs: byte equality, ASCII folding, case shape.
CaseModes == { "exact", "upper", "mixed" }
AttemptLimits == { 0, 1, MaxLocal }

\* With --case-sensitive the case mode is read by no comparison, so one mode
\* stands for all of them there.
Configs ==
    { c \in [ prefix         : Prefixes,
              suffix         : Suffixes,
              case_sensitive : BOOLEAN,
              case_mode      : CaseModes,
              max_attempts   : AttemptLimits,
              threads        : 1..MaxWorkers ] :
        c.case_sensitive => c.case_mode = "exact" }

\* The runs of the long specification: one query, max_attempts = LongLimit.
LongConfigs ==
    [ prefix         : { Some(<<65>>) },
      suffix         : { <<>> },
      case_sensitive : { TRUE },
      case_mode      : { "exact" },
      max_attempts   : { LongLimit },
      threads        : 1..MaxWorkers ]

\* The bytes of the texts given to the matcher on its own: 'A', 'B', 'a', 'b'
\* and the digit '1' (neither upper nor lower case).
Alphabet == { 65, 66, 97, 98, 49 }
TextsUpTo(n) == UNION { [1..k -> Alphabet] : k \in 0..n }
Texts == TextsUpTo(MaxTextLen)

\* --case-mode values given to the matcher on its own: the four the match
\* statement names, and two it does not.
KnownModes == { "exact", "upper", "lower", "mixed" }
ProbeModes == KnownModes \cup { "EXACT", "" }

\* The one run configuration of the specification of the matcher on its own,
\* which reads no argument.
MatcherConfigs ==
    [ prefix         : { None },
      suffix         : { <<98>> },
      case_sensitive : { FALSE },
      case_mode      : { "exact" },
      max_attempts   : { 0 },
      threads        : { 1 } ]

\* The configurations validation accepts, with --case-mode exact.
PathConfigs ==
    { c \in [ prefix         : { None } \cup { Some(p) : p \in TextsUpTo(MaxAffixLen) },
              suffix         : TextsUpTo(MaxAffixLen),
              case_sensitive : { FALSE },
              case_mode      : { "exact" },
              max_attempts   : { 0 },
              threads        : { 1 } ] :
        ~(~IsSome(c.prefix) /\ c.suffix = <<>>) }

\* Whether the output file can be read and written during the run.
DiskStates == BOOLEAN

\* Keypair::to_base58_string(): the secret that belongs to an address.
PrivateKey(address) == <<"key", address>>

(* ------------------------------------------------------------- the state *)

VARIABLES
    cfg,             \* args, with num_threads resolved into cfg.threads
    disk_ok,         \* the output file can be read and written
    cursor,          \* number of Keypair::new() calls made so far
    mainpc,          \* position of main
    attempts,        \* Arc<AtomicU64> attempts (far below 2^64 in these runs)
    found,           \* Arc<AtomicU64> found
    find_flag,       \* find_any's own found flag: some closure returned true
    wpc,             \* per work item: position of its closure
    local_attempts,  \* per closure
    last_progress,   \* per closure
    cand,            \* per closure: Some(address) once the address matched
    total,           \* per closure: total_attempts of the match branch
    reported,        \* the "Found matching address" reports printed
    saved,           \* the records save_to_json appended to the output file
    progress,        \* the totals of the progress lines printed
    outcome,         \* which final message main printed
    final_total,     \* the "Total attempts" main printed
    late_draws,      \* history: candidates drawn after found was stored
    save_calls,      \* history: invocations of save_to_json
    first_match,     \* history: Some(first candidate of the stream that
                     \*   satisfies the query)
    match_count,     \* history: candidates drawn that satisfy the query (0, 1, 2+)
    probe            \* the last call made to the matcher on its own, with its results

vars == << probe, cfg, disk_ok, cursor, mainpc, attempts, found, find_flag, wpc,
           local_attempts, last_progress, cand, total, reported, saved,
           progress, outcome, final_total, late_draws, save_calls,
           first_match, match_count >>

Workers == 1..cfg.threads

optimized_suffix ==
    IF cfg.suffix # <<>>
    THEN Some(OptimizedPattern_new(cfg.suffix, cfg.case_mode))
    ELSE None

optimized_prefix ==
    IF IsSome(cfg.prefix)
    THEN Some(OptimizedPattern_new(Unwrap(cfg.prefix), cfg.case_mode))
    ELSE None

\* Mutant of CandidateMatches: the two tests of the compiled-matcher path joined
\* by || instead of &&.
CandidateMatches_EitherPattern(address) ==
    IF cfg.case_sensitive
    THEN LET prefix_matches == IF IsSome(cfg.prefix)
                               THEN starts_with(address, Unwrap(cfg.prefix))
                               ELSE TRUE
             suffix_matches == IF cfg.suffix # <<>>
                               THEN ends_with(address, cfg.suffix)
                               ELSE TRUE
         IN  prefix_matches /\ suffix_matches
    ELSE LET prefix_matches == IF IsSome(optimized_prefix)
                               THEN matches(Unwrap(optimized_prefix), address)
                               ELSE TRUE
             suffix_matches == IF IsSome(optimized_suffix)
                               THEN matches_suffix(Unwrap(optimized_suffix), address)
                               ELSE TRUE
         IN  prefix_matches \/ suffix_matches

\* main.rs:394-406: the branch taken with --case-sensitive.
CaseSensitivePath(address) ==
    LET prefix_matches == IF IsSome(cfg.prefix)
                          THEN starts_with(address, Unwrap(cfg.prefix))
                          ELSE TRUE
        suffix_matches == IF cfg.suffix # <<>>
                          THEN ends_with(address, cfg.suffix)
                          ELSE TRUE
    IN  prefix_matches /\ suffix_matches

\* Mutant of CompiledPath: the suffix pattern tested with matches, against the
\* head of the address.
CompiledPath_SuffixAtHead(address) ==
    LET prefix_matches == IF IsSome(optimized_prefix)
                          THEN matches(Unwrap(optimized_prefix), address)
                          ELSE TRUE
        suffix_matches == IF IsSome(optimized_suffix)
                          THEN matches(Unwrap(optimized_suffix), address)
                          ELSE TRUE
    IN  prefix_matches /\ suffix_matches

\* main.rs:408-420: the branch taken without it, on the compiled patterns.
CompiledPath(address) ==
    LET prefix_matches == IF IsSome(optimized_prefix)
                          THEN matches(Unwrap(optimized_prefix), address)
                          ELSE TRUE
        suffix_matches == IF IsSome(optimized_suffix)
                          THEN matches_suffix(Unwrap(optimized_suffix), address)
                          ELSE TRUE
    IN  prefix_matches /\ suffix_matches

\* let matches = ... (the two paths of the worker closure).
CandidateMatches(address) ==
    IF cfg.case_sensitive
    THEN CaseSensitivePath(address)
    ELSE CompiledPath(address)

InitWith(configs) ==
    /\ cfg \in configs
    /\ disk_ok \in DiskStates
    /\ cursor = 0
    /\ mainpc = "validate"
    /\ attempts = 0
    /\ found = 0
    /\ find_flag = FALSE
    /\ wpc = [w \in Workers |-> "idle"]
    /\ local_attempts = [w \in Workers |-> 0]
    /\ last_progress = [w \in Workers |-> 0]
    /\ cand = [w \in Workers |-> None]
    /\ total = [w \in Workers |-> 0]
    /\ reported = <<>>
    /\ saved = <<>>
    /\ progress = <<>>
    /\ outcome = "none"
    /\ final_total = 0
    /\ late_draws = 0
    /\ save_calls = 0
    /\ first_match = None
    /\ match_count = 0
    /\ probe = [ op |-> "none" ]

Init == InitWith(Configs)

InitLong == InitWith(LongConfigs)

InitMatcher == InitWith(MatcherConfigs) /\ disk_ok

InitPaths == InitWith(PathConfigs) /\ disk_ok

(* ------------------------------------------------- the query (spec 4.2) *)

PrefixRequested == IsSome(cfg.prefix)
SuffixRequested == cfg.suffix # <<>>

\* The prefix and suffix tests of the configured path: plain substring
\* equality when case_sensitive, the compiled matcher otherwise.
PrefixTest(address) ==
    IF cfg.case_sensitive
    THEN starts_with(address, Unwrap(cfg.prefix))
    ELSE matches(OptimizedPattern_new(Unwrap(cfg.prefix), cfg.case_mode), address)

SuffixTest(address) ==
    IF cfg.case_sensitive
    THEN ends_with(address, cfg.suffix)
    ELSE matches_suffix(OptimizedPattern_new(cfg.suffix, cfg.case_mode), address)

SatisfiesQuery(address) ==
    /\ (~PrefixRequested \/ PrefixTest(address))
    /\ (~SuffixRequested \/ SuffixTest(address))

(* --------------------------------------------------------------- main *)

\* main.rs:255-259: exit(1) when no pattern was given.
Validate ==
    /\ mainpc = "validate"
    /\ mainpc' = IF ~IsSome(cfg.prefix) /\ cfg.suffix = <<>> THEN "exit1" ELSE "setup"
    /\ UNCHANGED << probe, cfg, disk_ok, cursor, attempts, found, find_flag, wpc,
                    local_attempts, last_progress, cand, total, reported, saved,
                    progress, outcome, final_total, late_draws, save_calls,
                    first_match, match_count >>

\* main.rs:261-377: compile the patterns, build the pool, create the counters
\* and the work items, and enter find_any.
StartSearch ==
    /\ mainpc = "setup"
    /\ mainpc' = "searching"
    /\ attempts' = 0
    /\ found' = 0
    /\ UNCHANGED << probe, cfg, disk_ok, cursor, find_flag, wpc, local_attempts,
                    last_progress, cand, total, reported, saved, progress,
                    outcome, final_total, late_draws, save_calls,
                    first_match, match_count >>

(* ------------------------------------------------------------- workers *)

\* A pool thread takes a work item and enters its closure (main.rs:376-378);
\* find_any hands out no item once its flag is set.
StartItem(w) ==
    /\ mainpc = "searching"
    /\ wpc[w] = "idle"
    /\ ~find_flag
    /\ wpc' = [wpc EXCEPT ![w] = "loop"]
    /\ local_attempts' = [local_attempts EXCEPT ![w] = 0]
    /\ last_progress' = [last_progress EXCEPT ![w] = 0]
    /\ UNCHANGED << probe, cfg, disk_ok, cursor, mainpc, attempts, found, find_flag,
                    cand, total, reported, saved, progress, outcome,
                    final_total, late_draws, save_calls, first_match,
                    match_count >>

\* An item not yet taken when the flag is set is dropped without running.
SkipItem(w) ==
    /\ mainpc = "searching"
    /\ wpc[w] = "idle"
    /\ find_flag
    /\ wpc' = [wpc EXCEPT ![w] = "skipped"]
    /\ UNCHANGED << probe, cfg, disk_ok, cursor, mainpc, attempts, found, find_flag,
                    local_attempts, last_progress, cand, total, reported, saved,
                    progress, outcome, final_total, late_draws, save_calls,
                    first_match, match_count >>

\* Mutant of FoundReport: the report is made from a freshly generated keypair
\* instead of the one that was tested.
FoundReport_FreshKeypair(w) ==
    LET address == CHOOSE a \in Addresses : a # Unwrap(cand[w]) IN
    [ address     |-> address,
      private_key |-> PrivateKey(address),
      attempts    |-> total[w] ]

\* What lines 427-431 print about the match.
FoundReport(w) ==
    [ address     |-> Unwrap(cand[w]),
      private_key |-> PrivateKey(Unwrap(cand[w])),
      attempts    |-> total[w] ]

\* The record save_to_json builds (main.rs:188-202), without its timestamps.
NewRecord(w) ==
    [ address     |-> Unwrap(cand[w]),
      private_key |-> PrivateKey(Unwrap(cand[w])),
      attempts    |-> total[w],
      prefix      |-> cfg.prefix,
      suffix      |-> cfg.suffix,
      case_mode   |-> cfg.case_mode ]

\* History of the candidate stream, kept whenever Keypair::new() is called.
Drawn(address) ==
    /\ cursor' = cursor + 1
    /\ late_draws' = IF found # 0 /\ late_draws < cfg.threads
                     THEN late_draws + 1 ELSE late_draws
    /\ first_match' = IF SatisfiesQuery(address) /\ first_match = None
                      THEN Some(address)
                      ELSE first_match
    /\ match_count' = IF SatisfiesQuery(address) /\ match_count < 2
                      THEN match_count + 1 ELSE match_count

\* Mutant of Exhaust: the limit is compared without the test max_attempts > 0.
Exhaust_NoZeroCheck(w) ==
    /\ wpc[w] = "loop"
    /\ local_attempts[w] + 1 >= cfg.max_attempts
    /\ wpc' = [wpc EXCEPT ![w] = "exhausted"]
    /\ find_flag' = TRUE
    /\ local_attempts' = [local_attempts EXCEPT ![w] = 0]
    /\ last_progress' = [last_progress EXCEPT ![w] = 0]
    /\ UNCHANGED << probe, cfg, disk_ok, cursor, mainpc, attempts, found, cand, total,
                    reported, saved, progress, outcome, final_total,
                    late_draws, save_calls, first_match, match_count >>

\* main.rs:384-386: max_attempts reached, return true.  The closure's locals
\* are gone once it has returned.
Exhaust(w) ==
    /\ wpc[w] = "loop"
    /\ cfg.max_attempts > 0
    /\ local_attempts[w] + 1 >= cfg.max_attempts
    /\ wpc' = [wpc EXCEPT ![w] = "exhausted"]
    /\ find_flag' = TRUE
    /\ local_attempts' = [local_attempts EXCEPT ![w] = 0]
    /\ last_progress' = [last_progress EXCEPT ![w] = 0]
    /\ UNCHANGED << probe, cfg, disk_ok, cursor, mainpc, attempts, found, cand, total,
                    reported, saved, progress, outcome, final_total,
                    late_draws, save_calls, first_match, match_count >>

\* Mutant of fetch_add: the value is stored instead of added.
fetch_add_Store(counter, n) == n

\* AtomicU64::fetch_add: the counter after the addition.
fetch_add(counter, n) == counter + n

\* One iteration (main.rs:380-424, 462-464) from the loop head up to and
\* including its first operation on shared memory: the fetch_add of a match
\* (line 424), the fetch_add of a flush (line 464), or none.  Generating and
\* testing the candidate touch only the closure's own data.
Iterate(w) ==
    /\ wpc[w] = "loop"
    /\ LET la == local_attempts[w] + 1 IN
       /\ ~(cfg.max_attempts > 0 /\ la >= cfg.max_attempts)
       /\ (cfg.max_attempts = 0 => la <= MaxLocal)
       /\ local_attempts' = [local_attempts EXCEPT ![w] = la]
       /\ \E address \in Addresses :
            /\ Drawn(address)
            /\ IF CandidateMatches(address)
               THEN /\ total' = [total EXCEPT ![w] = attempts + la]
                    /\ attempts' = fetch_add(attempts, la)
                    /\ cand' = [cand EXCEPT ![w] = Some(address)]
                    /\ wpc' = [wpc EXCEPT ![w] = "store"]
               ELSE IF la % FlushBatch = 0
               THEN /\ attempts' = fetch_add(attempts, FlushBatch)
                    /\ wpc' = [wpc EXCEPT ![w] = "load"]
                    /\ UNCHANGED << cand, total >>
               ELSE UNCHANGED << attempts, cand, wpc, total >>
    /\ UNCHANGED << probe, cfg, disk_ok, mainpc, found, find_flag, last_progress, reported,
                    saved, progress, outcome, final_total, save_calls >>

\* main.rs:425-459: found.store(total_attempts), the report of the match,
\* save_to_json(...).unwrap() and return true.  No worker reads found, the
\* terminal or the output file, so the three effects are one step.  When the
\* output file cannot be read or written save_to_json returns Err and
\* unwrap() panics in the closure.
Publish(w) ==
    /\ wpc[w] = "store"
    /\ found' = total[w]
    /\ reported' = Append(reported, FoundReport(w))
    /\ save_calls' = save_calls + 1
    /\ IF disk_ok
       THEN /\ saved' = Append(saved, NewRecord(w))
            /\ wpc' = [wpc EXCEPT ![w] = "returned"]
            /\ find_flag' = TRUE
       ELSE /\ wpc' = [wpc EXCEPT ![w] = "panicked"]
            /\ UNCHANGED << saved, find_flag >>
    /\ cand' = [cand EXCEPT ![w] = None]
    /\ local_attempts' = [local_attempts EXCEPT ![w] = 0]
    /\ last_progress' = [last_progress EXCEPT ![w] = 0]
    /\ total' = [total EXCEPT ![w] = 0]
    /\ UNCHANGED << probe, cfg, disk_ok, cursor, mainpc, attempts, progress, outcome,
                    final_total, late_draws, first_match, match_count >>

\* main.rs:467-475: attempts.load() and the rate-limited progress line.
ProgressLoad(w) ==
    /\ wpc[w] = "load"
    /\ LET current_total == attempts IN
       IF current_total - last_progress[w] >= ProgressEvery
       THEN /\ progress' = Append(progress, current_total)
            /\ last_progress' = [last_progress EXCEPT ![w] = current_total]
       ELSE UNCHANGED << progress, last_progress >>
    /\ wpc' = [wpc EXCEPT ![w] = "loop"]
    /\ UNCHANGED << probe, cfg, disk_ok, cursor, mainpc, attempts, found, find_flag,
                    local_attempts, cand, total, reported, saved, outcome,
                    final_total, late_draws, save_calls, first_match,
                    match_count >>

(* ------------------------------------------------------- end of the run *)

Finished(w) == wpc[w] \in { "returned", "exhausted", "skipped", "panicked" }

\* find_any returns once every item has returned or been dropped.  A panic in a
\* closure is resumed in main, which then never reaches the summary; otherwise
\* main.rs:479-495 prints the outcome by result.is_some() and the totals.
Finish ==
    /\ mainpc = "searching"
    /\ \A w \in Workers : Finished(w)
    /\ IF \E w \in Workers : wpc[w] = "panicked"
       THEN /\ mainpc' = "panicked"
            /\ UNCHANGED << outcome, final_total >>
       ELSE /\ mainpc' = "done"
            /\ outcome' = IF find_flag THEN "found" ELSE "nomatch"
            /\ final_total' = attempts
    /\ UNCHANGED << probe, cfg, disk_ok, cursor, attempts, found, find_flag, wpc,
                    local_attempts, last_progress, cand, total, reported, saved,
                    progress, late_draws, save_calls, first_match, match_count >>

Next ==
    \/ Validate
    \/ StartSearch
    \/ \E w \in Workers : StartItem(w)
    \/ \E w \in Workers : SkipItem(w)
    \/ \E w \in Workers : Exhaust(w)
    \/ \E w \in Workers : Iterate(w)
    \/ \E w \in Workers : Publish(w)
    \/ \E w \in Workers : ProgressLoad(w)
    \/ Finish

Spec == Init /\ [][Next]_vars

\* Bounded runs long enough for several flushes per worker.
SpecLong == InitLong /\ [][Next]_vars

(* ------------------------------------------------ the matcher on its own *)

\* The state of the run, which a call to the matcher on its own leaves alone.
run_vars == << cfg, disk_ok, cursor, mainpc, attempts, found, find_flag, wpc,
               local_attempts, last_progress, cand, total, reported, saved,
               progress, outcome, final_total, late_draws, save_calls,
               first_match, match_count >>

\* One call per behaviour: OptimizedPattern::new(pattern, mode), then
\* matches(text) and matches_suffix(text), for every mode.
ProbeMatcher ==
    /\ probe.op = "none"
    /\ \E pattern \in Texts, text \in Texts :
          probe' = [ op      |-> "matcher",
                     pattern |-> pattern,
                     text    |-> text,
                     prefix  |-> [ m \in ProbeModes |->
                                     matches(OptimizedPattern_new(pattern, m), text) ],
                     suffix  |-> [ m \in ProbeModes |->
                                     matches_suffix(OptimizedPattern_new(pattern, m), text) ] ]
    /\ UNCHANGED run_vars

NextMatcher == ProbeMatcher

SpecMatcher == InitMatcher /\ [][NextMatcher]_vars

\* The two branches of let matches = ... on the same candidate.
ProbePaths ==
    /\ probe.op = "none"
    /\ \E address \in Texts :
          probe' = [ op             |-> "paths",
                     text           |-> address,
                     case_sensitive |-> CaseSensitivePath(address),
                     compiled       |-> CompiledPath(address) ]
    /\ UNCHANGED run_vars

NextPaths == ProbePaths

SpecPaths == InitPaths /\ [][NextPaths]_vars

(* ------------------------------------------- save_to_json on its own *)

\* The records of earlier runs and the record of this one: the fields of
\* NewRecord, for a search with --prefix A.
StoredRecords ==
    [ address     : { <<65, 98>>, <<65, 66>> },
      private_key : { <<"key", <<65, 98>>>>, <<"key", <<65, 66>>>> },
      attempts    : { 1, 2 },
      prefix      : { Some(<<65>>) },
      suffix      : { <<>> },
      case_mode   : { "exact" } ]

Records == { r \in StoredRecords : r.private_key = PrivateKey(r.address) }

StoredUpTo(n) == UNION { [1..k -> Records] : k \in 0..n }

\* A JSON document as save_to_json sees it: the type of the top-level value
\* and, for an object, what its key "vanity_addresses" holds (absent, an
\* array, null, a string), the elements of that array, and whether the object
\* has another key besides.
NoDocument == [ top |-> "none", key |-> "none", records |-> <<>>, extra |-> FALSE ]

\* json!({ "vanity_addresses": [] })
FreshDocument == [ top |-> "object", key |-> "array", records |-> <<>>, extra |-> FALSE ]

Documents ==
    [ top : { "object" }, key : { "array" },
      records : StoredUpTo(MaxStored), extra : BOOLEAN ]
    \cup [ top : { "object" }, key : { "absent", "null", "string" },
           records : { <<>> }, extra : BOOLEAN ]
    \cup [ top : { "null", "array", "number" }, key : { "none" },
           records : { <<>> }, extra : { FALSE } ]

\* The output file before the call: missing; present but failing
\* read_to_string; blank (empty or white space); not JSON; or a JSON document.
\* writable: fs::write on it succeeds.
DiskFiles ==
    [ state : { "missing", "unreadable", "blank", "malformed" },
      doc : { NoDocument }, writable : BOOLEAN ]
    \cup [ state : { "json" }, doc : Documents, writable : BOOLEAN ]

\* addresses["vanity_addresses"] (serde_json IndexMut by a string key): null
\* becomes an empty object, an object gets the key with the value null when it
\* lacks it, any other value panics.
IndexPanics(doc) == doc.top \notin { "object", "null" }

IndexVanityAddresses(doc) ==
    IF doc.top = "null"
    THEN [ top |-> "object", key |-> "null", records |-> <<>>, extra |-> FALSE ]
    ELSE IF doc.key = "absent"
    THEN [ doc EXCEPT !.key = "null" ]
    ELSE doc

\* main.rs:184-226.  The result is Ok, Err or a panic, with the file as the
\* call leaves it.
save_to_json(file, new_address) ==
    IF file.state = "unreadable"
    THEN [ result |-> "Err", file |-> file ]
    ELSE LET addresses == IF file.state = "json" THEN file.doc ELSE FreshDocument
         IN  IF IndexPanics(addresses)
             THEN [ result |-> "panic", file |-> file ]
             ELSE LET indexed == IndexVanityAddresses(addresses)
                      pushed  == IF indexed.key = "array"
                                 THEN [ indexed EXCEPT !.records = Append(@, new_address) ]
                                 ELSE indexed
                  IN  IF file.writable
                      THEN [ result |-> "Ok",
                             file   |-> [ state |-> "json", doc |-> pushed,
                                          writable |-> TRUE ] ]
                      ELSE [ result |-> "Err", file |-> file ]

InitSave == InitWith(MatcherConfigs) /\ disk_ok

\* One call per behaviour: save_to_json on any output file with any record.
ProbeSave ==
    /\ probe.op = "none"
    /\ \E file \in DiskFiles, new_address \in Records :
          LET out == save_to_json(file, new_address) IN
          probe' = [ op          |-> "save",
                     before      |-> file,
                     new_address |-> new_address,
                     result      |-> out.result,
                     after       |-> out.file ]
    /\ UNCHANGED run_vars

NextSave == ProbeSave

SpecSave == InitSave /\ [][NextSave]_vars

(* ------------------------------------------------------------ the claims *)

\* Work items whose closure went through the match branch (main.rs:423-460).
Publishers == { w \in Workers : wpc[w] \in { "store", "returned", "panicked" } }

\* C1: save_to_json is invoked at most once in a run, and exactly once when the
\* run ends with a match, however many workers generate a matching candidate.
C1_SaveOncePerRun ==
    /\ save_calls <= 1
    /\ (mainpc = "done" /\ Len(reported) >= 1 => save_calls = 1)

\* C2: publication is set-once: once the found marker is written it is never
\* written again, and once a match is reported no second match is reported.
C2_FirstWriterWins ==
    [][ /\ (found # 0 => found' = found)
        /\ (Len(reported) >= 1 => reported' = reported) ]_vars

\* C3: once a match is published every other worker stops promptly: after the
\* found marker is stored each of the other workers draws at most the candidate
\* of its iteration in flight, so at most threads - 1 candidates in all.
C3_WorkersStopAfterPublish ==
    late_draws <= cfg.threads - 1

\* C4: a bounded run in which no candidate matches ends with the no-match
\* outcome, and a run reports success only if a worker published a match.
C4_ExhaustedIsNotSuccess ==
    mainpc = "done" =>
        /\ (cfg.max_attempts > 0 /\ match_count = 0 => outcome = "nomatch")
        /\ (outcome = "found" => Len(reported) >= 1)

\* C5: with max_attempts = K > 0 and no matching candidate, the total attempts
\* the run reports is within one flush batch of K, for every worker count.
C5_TotalWithinOneBatch ==
    (mainpc = "done" /\ cfg.max_attempts > 0 /\ match_count = 0) =>
        /\ final_total - cfg.max_attempts <= FlushBatch
        /\ cfg.max_attempts - final_total <= FlushBatch

\* C6: max_attempts bounds the candidates of all workers together: their number
\* never exceeds max_attempts plus one batch per worker.
C6_CollectiveBound ==
    cfg.max_attempts > 0 =>
        cursor <= cfg.max_attempts + cfg.threads * FlushBatch

\* C7: with no non-empty pattern (prefix absent or empty, suffix empty) the run
\* stops at validation: no work item starts and no candidate is generated.
C7_EmptyPatternsRejected ==
    ((~IsSome(cfg.prefix) \/ Unwrap(cfg.prefix) = <<>>) /\ cfg.suffix = <<>>) =>
        /\ mainpc \in { "validate", "exit1" }
        /\ cursor = 0
        /\ \A w \in Workers : wpc[w] = "idle"

\* C8: a single worker reports the first candidate of the stream that satisfies
\* the query, with total attempts equal to that candidate's 1-based position.
C8_SingleWorkerPosition ==
    (cfg.threads = 1 /\ Len(reported) >= 1) =>
        /\ first_match = Some(reported[1].address)
        /\ reported[1].attempts = cursor

\* C9: a worker publishes a candidate iff it satisfies the query (no prefix
\* requested or the prefix test holds, and no suffix requested or the suffix
\* test holds): every reported or saved address satisfies it, and the closures
\* that took the match branch are as many as the candidates that satisfy it.
C9_PublishIffQuery ==
    /\ \A i \in 1..Len(reported) : SatisfiesQuery(reported[i].address)
    /\ \A i \in 1..Len(saved) : SatisfiesQuery(saved[i].address)
    /\ \A w \in Workers : wpc[w] = "store" => SatisfiesQuery(Unwrap(cand[w]))
    /\ match_count = IF Cardinality(Publishers) < 2
                     THEN Cardinality(Publishers) ELSE 2

\* C9 witness: with a prefix and a suffix requested on the compiled-matcher
\* path, a candidate was rejected and another was published and saved.
C9_Witness ==
    /\ PrefixRequested /\ SuffixRequested /\ ~cfg.case_sensitive
    /\ Len(saved) = 1
    /\ cursor >= 2
    /\ match_count = 1

\* C10 as stated: whatever the worker count, every reported match is the first
\* candidate of the stream that satisfies the query (the single worker's match).
C10_SameMatchAnyWorkers ==
    \A i \in 1..Len(reported) : first_match = Some(reported[i].address)

\* C10 amended: when exactly one candidate of the stream satisfies the query,
\* every match reported is that candidate, with one worker or with several;
\* and a single worker always reports the first one that satisfies it.
C10_SameMatchWhenUnique ==
    /\ match_count = 1 =>
          \A i \in 1..Len(reported) : first_match = Some(reported[i].address)
    /\ (cfg.threads = 1 /\ Len(reported) >= 1) =>
          first_match = Some(reported[1].address)

\* C10 witness: several workers, candidates rejected, the one that satisfies
\* the query reported.
C10_Witness ==
    /\ cfg.threads >= 2
    /\ match_count = 1
    /\ Len(reported) = 1
    /\ cursor >= 3

\* C11: a persistence failure after a match is not fatal: no worker closure and
\* not main ends in a panic, and once the workers are done the run has printed
\* its final summary.
C11_SaveFailureNotFatal ==
    /\ \A w \in Workers : wpc[w] # "panicked"
    /\ mainpc # "panicked"
    /\ ((~disk_ok /\ Len(reported) >= 1 /\ mainpc # "searching") => mainpc = "done")

\* The private keys of the run's candidates.
PrivateKeys == { PrivateKey(a) : a \in Addresses }

\* C12: the private key of a match goes to save_to_json, once per match, and to
\* no other sink: nothing printed about the match carries it.
C12_KeyOnlyToPersistence ==
    /\ save_calls = Len(reported)
    /\ \A i \in 1..Len(reported) : reported[i].private_key \notin PrivateKeys

\* The slices the matcher compares with a pattern of length n.
LeadingSlice(text, n) == SubSeq(text, 1, n)
TrailingSlice(text, n) == SubSeq(text, Len(text) - n + 1, Len(text))

\* The candidate of the call is at least as long as its pattern.
ProbeFits == probe.op = "matcher" /\ Len(probe.text) >= Len(probe.pattern)

\* The slice has the case shape of the pattern: an upper-case byte wherever the
\* pattern has one, a lower-case byte wherever the pattern has one.
SameCaseShape(pattern, slice) ==
    \A i \in 1..Len(pattern) :
        /\ (is_ascii_uppercase(pattern[i]) => is_ascii_uppercase(slice[i]))
        /\ (is_ascii_lowercase(pattern[i]) => is_ascii_lowercase(slice[i]))

\* C13: in mode mixed the prefix test holds iff the leading slice of the
\* pattern's length has the pattern's case shape, and the suffix test iff the
\* trailing slice has; bytes of the pattern that are not letters constrain
\* nothing.
C13_MixedIsCaseShape ==
    ProbeFits =>
        /\ probe.prefix["mixed"] =
              SameCaseShape(probe.pattern, LeadingSlice(probe.text, Len(probe.pattern)))
        /\ probe.suffix["mixed"] =
              SameCaseShape(probe.pattern, TrailingSlice(probe.text, Len(probe.pattern)))

\* C13 witness: pattern "Ab" on "Bab" holds as a prefix, though no byte of
\* "Ba" is a byte of the pattern and case folding rejects it, and fails as a
\* suffix, the trailing slice being "ab".
C13_Witness ==
    /\ probe.op = "matcher"
    /\ probe.pattern = <<65, 98>>
    /\ probe.text = <<66, 97, 98>>
    /\ probe.prefix["mixed"]
    /\ ~probe.suffix["mixed"]
    /\ ~probe.prefix["upper"]

\* C14: a candidate shorter than the pattern fails the prefix test and the
\* suffix test in every mode.
C14_ShortCandidateRejected ==
    (probe.op = "matcher" /\ Len(probe.text) < Len(probe.pattern)) =>
        \A m \in ProbeModes : ~probe.prefix[m] /\ ~probe.suffix[m]

\* C14 witness: pattern "ab" on the candidate "b", which equals the pattern's
\* last byte.
C14_Witness ==
    /\ probe.op = "matcher"
    /\ probe.pattern = <<97, 98>>
    /\ probe.text = <<98>>
    /\ \A m \in ProbeModes : ~probe.suffix[m]

\* Equality under ASCII case folding.
FoldsEqual(a, b) == to_lowercase(a) = to_lowercase(b)

\* C15: modes upper and lower give the same result, for the prefix and for the
\* suffix: the slice equals the pattern under ASCII case folding.
C15_UpperLowerFold ==
    probe.op = "matcher" =>
        /\ probe.prefix["upper"] = probe.prefix["lower"]
        /\ probe.suffix["upper"] = probe.suffix["lower"]
        /\ probe.prefix["upper"] =
              (/\ Len(probe.text) >= Len(probe.pattern)
               /\ FoldsEqual(LeadingSlice(probe.text, Len(probe.pattern)), probe.pattern))
        /\ probe.suffix["upper"] =
              (/\ Len(probe.text) >= Len(probe.pattern)
               /\ FoldsEqual(TrailingSlice(probe.text, Len(probe.pattern)), probe.pattern))

\* C15 witness: pattern "aB" on "Ab1" holds as a prefix in both modes, where
\* byte equality fails, and fails as a suffix.
C15_Witness ==
    /\ probe.op = "matcher"
    /\ probe.pattern = <<97, 66>>
    /\ probe.text = <<65, 98, 49>>
    /\ probe.prefix["upper"] /\ probe.prefix["lower"]
    /\ ~probe.prefix["exact"]
    /\ ~probe.suffix["lower"]

\* C16: mode exact holds iff the slice is the pattern byte for byte, and every
\* mode that is not exact, upper, lower or mixed gives the result of exact.
C16_ExactAndFallback ==
    probe.op = "matcher" =>
        /\ probe.prefix["exact"] =
              (/\ Len(probe.text) >= Len(probe.pattern)
               /\ LeadingSlice(probe.text, Len(probe.pattern)) = probe.pattern)
        /\ probe.suffix["exact"] =
              (/\ Len(probe.text) >= Len(probe.pattern)
               /\ TrailingSlice(probe.text, Len(probe.pattern)) = probe.pattern)
        /\ \A m \in ProbeModes \ KnownModes :
              /\ probe.prefix[m] = probe.prefix["exact"]
              /\ probe.suffix[m] = probe.suffix["exact"]

\* C16 witness: pattern "Ab" on "Ab1" holds as a prefix in mode exact and in
\* the unrecognized modes, and fails as a suffix.
C16_Witness ==
    /\ probe.op = "matcher"
    /\ probe.pattern = <<65, 98>>
    /\ probe.text = <<65, 98, 49>>
    /\ probe.prefix["exact"] /\ probe.prefix["EXACT"] /\ probe.prefix[""]
    /\ ~probe.suffix["exact"] /\ ~probe.suffix["EXACT"]

\* C17: with mode exact the --case-sensitive branch and the compiled-pattern
\* branch decide the same match for every candidate, the prefix "" and the
\* empty suffix included.
C17_PathsAgree ==
    probe.op = "paths" => probe.case_sensitive = probe.compiled

\* C17 witness: a prefix of "" with a suffix, on a candidate both branches
\* accept.
C17_Witness ==
    /\ probe.op = "paths"
    /\ cfg.prefix = Some(<<>>)
    /\ cfg.suffix = <<98>>
    /\ probe.text = <<65, 97, 98>>
    /\ probe.case_sensitive /\ probe.compiled

\* C18: the shared attempts counter never decreases: every step of the run
\* leaves it unchanged or increases it.
C18_AttemptsMonotone ==
    [][ attempts' >= attempts ]_vars

\* C18 witness: the counter was raised by a flush and by a match, and the run
\* came to its end.
C18_Witness ==
    /\ mainpc = "done"
    /\ Len(reported) >= 1
    /\ attempts > reported[1].attempts
    /\ attempts >= 2 * FlushBatch

\* C19: in an unbounded run no worker leaves its loop without having generated
\* a matching candidate: while no candidate has matched, no closure has
\* returned, find_any has not returned and no outcome is printed.
C19_UnboundedNeverGivesUp ==
    cfg.max_attempts = 0 =>
        /\ \A w \in Workers : wpc[w] # "exhausted"
        /\ match_count = 0 =>
              /\ \A w \in Workers : wpc[w] \in { "idle", "loop", "load" }
              /\ ~find_flag
              /\ mainpc \in { "validate", "exit1", "setup", "searching" }
              /\ outcome = "none"

\* C19 witness: an unbounded run whose workers have all drawn MaxLocal
\* candidates, none of which matched.
C19_Witness ==
    /\ cfg.max_attempts = 0
    /\ cfg.threads >= 2
    /\ match_count = 0
    /\ \A w \in Workers : wpc[w] = "loop" /\ local_attempts[w] = MaxLocal
    /\ cursor = cfg.threads * MaxLocal

\* C20: progress lines are printed at flush boundaries and are rate-limited:
\* between two consecutive progress lines of the run the shared attempts
\* counter has grown by at least the progress interval.
C20_ProgressRateLimited ==
    \A i \in 1..(Len(progress) - 1) :
        progress[i + 1] - progress[i] >= ProgressEvery

\* The records the output file holds: the elements of the array under
\* "vanity_addresses" of a JSON object, none otherwise.
Collection(file) ==
    IF file.state = "json" /\ file.doc.top = "object" /\ file.doc.key = "array"
    THEN file.doc.records
    ELSE <<>>

\* C21: save_to_json is append-only whatever the output file held: when it
\* returns Ok the file's collection is the earlier collection followed by the
\* new record, and a blank or unreadable file that can be written is taken as
\* an empty collection, not as an error.
C21_AppendOnly ==
    probe.op = "save" =>
        /\ probe.result = "Ok" =>
              Collection(probe.after) = Append(Collection(probe.before), probe.new_address)
        /\ (probe.before.state \in { "blank", "unreadable" } /\ probe.before.writable) =>
              /\ probe.result = "Ok"
              /\ Collection(probe.after) = <<probe.new_address>>

====
